---- MODULE Spec2Model ----
(***************************************************************************)
(* Server Technology PDU shell: the REST client (BaseAPIClient,            *)
(* ServerTechAPI and its retry decorator) and the outlet state flow.       *)
(*                                                                         *)
(* Python strings that the code cuts apart (port names, outlet ids) are    *)
(* sequences of one-character strings; all other strings are atoms.        *)
(***************************************************************************)
EXTENDS Integers, Sequences, FiniteSets, TLC

VARIABLES
    op,        \* the operation the host invoked: its name, or "none"
    opState,   \* "idle", "running", "returned" or "raised"
    opResult,  \* the value returned or the exception raised by op
    ports,     \* set_outlets_state: the ports argument
    state,     \* set_outlets_state: the state argument
    outlets,   \* set_outlets_state: the converted outlet ids
    idx,       \* set_outlets_state: position of the for loop in outlets
    api,       \* the ServerTechAPI instance of the operation, or NoApi
    session,   \* the requests.Session that is the default of BaseAPIClient.session
    call,      \* frame of Decorators.get_data.inner, or NoCall
    response,  \* the last response the transport returned
    log,       \* history: every request with the status answered and every
               \* time.sleep, in order
    args,      \* arguments of a function applied on its own
    ret,       \* its result
    conf,      \* the resource configuration of the operation
    resource_model,  \* autoload: the PDUResourceModel handed to the flow
    outlets_info,    \* autoload: result of get_outlets_info, or NoInfo
    pdu_info,        \* autoload: result of get_pdu_info so far, or NoInfo
    docs,            \* autoload: the documents the API returned, in order
    clients    \* every ServerTechAPI instance constructed so far

vars == <<op, opState, opResult, ports, state, outlets, idx, api, session,
          call, response, log, args, ret, conf, resource_model, outlets_info,
          pdu_info, docs, clients>>

autoloadVars == <<resource_model, outlets_info, pdu_info, docs>>

(***************************************************************************)
(* Bounds of the model.                                                    *)
(***************************************************************************)
MaxChars == 5      \* characters in all ports of one enumerated port list
MaxPorts == 3      \* ports in one port list

(***************************************************************************)
(* Python values.                                                          *)
(***************************************************************************)
None == [kind |-> "None"]

Str(v) == IF v = "<None>" THEN "None" ELSE v

(***************************************************************************)
(* helpers/errors.py: the exception classes and their base classes.        *)
(***************************************************************************)
ErrorBase ==
    [BaseServerTechError         |-> "Exception",
     NotSupportedServerTechError |-> "BaseServerTechError",
     RESTAPIServerTechError      |-> "BaseServerTechError",
     JSONDecodeError             |-> "Exception",
     KeyError                    |-> "Exception",
     TypeError                   |-> "Exception",
     AttributeError              |-> "Exception",
     ConnectionError             |-> "Exception",
     Exception                   |-> "Exception"]

\* RESTAPIUnavailableServerTechError: a REST API error of its own class
UnavailableBase == "RESTAPIServerTechError"

BaseOf(cls) ==
    IF cls = "RESTAPIUnavailableServerTechError" THEN UnavailableBase
    ELSE ErrorBase[cls]

RECURSIVE IsSubclass(_, _)
IsSubclass(cls, other) ==
    IF cls = other THEN TRUE
    ELSE IF cls = "Exception" THEN FALSE
    ELSE IsSubclass(BaseOf(cls), other)

\* an exception instance: its class, and the HTTP status and the attempt
\* number of the exchange that caused it (0 when there is none)
Exc(cls, status, attempt) ==
    [kind |-> "exception", cls |-> cls, status |-> status, attempt |-> attempt]

(***************************************************************************)
(* The PDU's answers.  A response is its status code and its body text;    *)
(* 204 NO CONTENT has no body, and the code never reads the body of an     *)
(* error response.                                                         *)
(***************************************************************************)
SuccessStatuses == {200, 204}
ErrorStatuses == {400, 404, 405, 409, 500, 503}
Statuses == SuccessStatuses \cup ErrorStatuses

CommonJsonTexts == {"[]", "{\"firmware\": \"1.2\"}"}
Bodies == {"", "<html>"} \cup CommonJsonTexts

\* documents of config/info/units, control/outlets and config/info/system
UnitsTexts ==
    {"[{\"model_number\": \"PRO2\", \"product_serial_number\": \"SN1\"}]",
     "[{\"product_serial_number\": \"SN1\"}]",
     "[{\"model_number\": \"PRO2\"}, {\"model_number\": \"PRO3\"}]"}

OutletsTexts ==
    {"[{\"id\": \"AA1\", \"control_state\": \"on\"}, {\"id\": \"AA2\", \"control_state\": \"off\"}]",
     "[{\"id\": \"AA1\", \"control_state\": \"on\"}, {\"id\": \"AA1\", \"control_state\": \"off\"}]",
     "[{\"control_state\": \"on\"}]"}

SystemTexts == {"{}"}

JsonTexts == CommonJsonTexts \cup UnitsTexts \cup OutletsTexts \cup SystemTexts

Response(status, body) == [kind |-> "response", status |-> status, body |-> body]

Responses ==
    {Response(200, b) : b \in Bodies}
        \cup {Response(204, "")}
        \cup {Response(s, "") : s \in ErrorStatuses}

\* requests.Response.raise_for_status as _do_request uses it
RaisesForStatus(res) == res.status >= 400 /\ res.status < 600

\* truth value of a response in `if response:`
ResponseBool(res) == ~RaisesForStatus(res)

\* response.json(): the parsed document, or JSONDecodeError
Dict(pairs) == [kind |-> "dict", items |-> pairs]
List(elems) == [kind |-> "list", items |-> elems]

JsonValue(text) ==
    CASE text = "[]" -> List(<<>>)
      [] text = "{\"firmware\": \"1.2\"}" -> Dict(<<<<"firmware", "1.2">>>>)
      [] text = "{}" -> Dict(<<>>)
      [] text = "[{\"model_number\": \"PRO2\", \"product_serial_number\": \"SN1\"}]" ->
            List(<<Dict(<<<<"model_number", "PRO2">>,
                          <<"product_serial_number", "SN1">>>>)>>)
      [] text = "[{\"product_serial_number\": \"SN1\"}]" ->
            List(<<Dict(<<<<"product_serial_number", "SN1">>>>)>>)
      [] text = "[{\"model_number\": \"PRO2\"}, {\"model_number\": \"PRO3\"}]" ->
            List(<<Dict(<<<<"model_number", "PRO2">>>>),
                   Dict(<<<<"model_number", "PRO3">>>>)>>)
      [] text = "[{\"id\": \"AA1\", \"control_state\": \"on\"}, {\"id\": \"AA2\", \"control_state\": \"off\"}]" ->
            List(<<Dict(<<<<"id", "AA1">>, <<"control_state", "on">>>>),
                   Dict(<<<<"id", "AA2">>, <<"control_state", "off">>>>)>>)
      [] text = "[{\"id\": \"AA1\", \"control_state\": \"on\"}, {\"id\": \"AA1\", \"control_state\": \"off\"}]" ->
            List(<<Dict(<<<<"id", "AA1">>, <<"control_state", "on">>>>),
                   Dict(<<<<"id", "AA1">>, <<"control_state", "off">>>>)>>)
      [] text = "[{\"control_state\": \"on\"}]" ->
            List(<<Dict(<<<<"control_state", "on">>>>)>>)

Return(v) == [kind |-> "return", value |-> v]
Raise(e) == [kind |-> "raise", value |-> e]

ResponseJson(res, attempt) ==
    IF res.body \in JsonTexts
    THEN Return(JsonValue(res.body))
    ELSE Raise(Exc("JSONDecodeError", res.status, attempt))

(***************************************************************************)
(* BaseAPIClient._do_request, after the transport returned res.            *)
(***************************************************************************)
NoMap == [s \in {} |-> "Exception"]

MapArg(isNone, map) == [isNone |-> isNone, map |-> map]

MapGet(map, code, default) == IF code \in DOMAIN map THEN map[code] ELSE default

_do_request_always_raising(res, raise_for_status, http_error_map, attempt) ==
    LET map == IF http_error_map.isNone THEN NoMap ELSE http_error_map.map
    IN  IF RaisesForStatus(res)
        THEN Raise(Exc(MapGet(map, res.status, "BaseServerTechError"),
                       res.status, attempt))
        ELSE Return(res)

_do_request(res, raise_for_status, http_error_map, attempt) ==
    LET map == IF http_error_map.isNone THEN NoMap ELSE http_error_map.map
    IN  IF raise_for_status /\ RaisesForStatus(res)
        THEN Raise(Exc(MapGet(map, res.status, "BaseServerTechError"),
                       res.status, attempt))
        ELSE Return(res)

(***************************************************************************)
(* ServerTechAPI: error maps and defaults of the retry decorator.          *)
(***************************************************************************)
BASE_ERRORS_503_unavailable ==
    (404 :> "RESTAPIUnavailableServerTechError")
        @@ (405 :> "RESTAPIServerTechError")
        @@ (503 :> "RESTAPIUnavailableServerTechError")

BASE_ERRORS ==
    (404 :> "RESTAPIUnavailableServerTechError")
        @@ (405 :> "RESTAPIServerTechError")
        @@ (503 :> "RESTAPIServerTechError")

\* {**a, **b}
Merge(a, b) ==
    [s \in (DOMAIN a) \cup (DOMAIN b) |-> IF s \in DOMAIN b THEN b[s] ELSE a[s]]

set_outlet_state_error_map_400 == (400 :> "RESTAPIServerTechError")

set_outlet_state_error_map ==
    (400 :> "RESTAPIServerTechError") @@ (409 :> "RESTAPIServerTechError")

ReadMethods == {"get_pdu_units_info", "get_pdu_system_info", "get_outlets"}

ErrorMapOf(method) ==
    IF method = "set_outlet_state"
    THEN Merge(BASE_ERRORS, set_outlet_state_error_map)
    ELSE Merge(BASE_ERRORS, NoMap)

retries == 6
timeout == 5
raise_on_timeout == TRUE

Caught_any_rest_error(exc) == IsSubclass(exc.cls, "RESTAPIServerTechError")

\* except RESTAPIUnavailableServerTechError
Caught(exc) == IsSubclass(exc.cls, "RESTAPIUnavailableServerTechError")

InnerReturn_raw(res, attempt) == Return(res)

\* the body of the try block after decorated() returned response
InnerReturn(res, attempt) ==
    IF ResponseBool(res)
    THEN ResponseJson(res, attempt)
    ELSE Return(res)

(***************************************************************************)
(* ServerTechOutletsStateFlow: states and port conversion.                 *)
(***************************************************************************)
AVAILABLE_STATES == <<"on", "off", "reboot">>

IsAvailable_unchecked(st) == TRUE

IsAvailable(st) == \E i \in DOMAIN AVAILABLE_STATES : AVAILABLE_STATES[i] = st

\* port.split("/")[-1]
RECURSIVE LastToken(_)
LastToken(port) ==
    IF port = <<>> THEN <<>>
    ELSE IF port[Len(port)] = "/" THEN <<>>
    ELSE LastToken(SubSeq(port, 1, Len(port) - 1)) \o <<port[Len(port)]>>

\* token.replace("PS", "")
RECURSIVE ReplacePS(_)
ReplacePS(token) ==
    IF Len(token) < 2 THEN token
    ELSE IF token[1] = "P" /\ token[2] = "S"
         THEN ReplacePS(SubSeq(token, 3, Len(token)))
         ELSE <<token[1]>> \o ReplacePS(Tail(token))

_ports_to_outlet_ids(ps) == [i \in 1..Len(ps) |-> ReplacePS(LastToken(ps[i]))]

(***************************************************************************)
(* BaseAPIClient: construction from a resource configuration.              *)
(***************************************************************************)
NoValue == "<None>"       \* Python's None where a string is expected

Configs ==
    {[address |-> "192.168.30.128", api_user |-> u, api_password |-> "secret",
      api_port |-> p, api_scheme |-> s] :
        <<u, p, s>> \in {<<"", "", "">>, <<"admin", "8443", "http">>}}

\* `value or None`
OrNone(v) == IF v = "" THEN NoValue ELSE v

\* ServerTechAPI(address=..., username=..., password=..., port=..., scheme=...)
ServerTechAPI(cf) ==
    [address  |-> cf.address,
     username |-> cf.api_user,
     password |-> cf.api_password,
     port     |-> OrNone(cf.api_port),
     scheme   |-> OrNone(cf.api_scheme),
     verify_ssl |-> FALSE]

NoApi == [address |-> NoValue, username |-> NoValue, password |-> NoValue,
          port |-> NoValue, scheme |-> NoValue, verify_ssl |-> FALSE]

\* requests.Session() as the class body creates it
NewSession == [verify |-> TRUE, auth |-> <<>>, content_type |-> NoValue]

\* __attrs_post_init__ on the session of the new client
PostInit(client, sess) ==
    [verify |-> client.verify_ssl,
     auth |-> IF client.username # "" THEN <<client.username, client.password>>
              ELSE sess.auth,
     content_type |-> "application/json"]

\* ServerTechAPI._base_url and the url of _do_request
_base_url(client) ==
    <<Str(client.scheme), "://", client.address, ":", Str(client.port), "/jaws">>

Url(client, path) == _base_url(client) \o <<"/">> \o path

(***************************************************************************)
(* The requests of ServerTechAPI.                                          *)
(***************************************************************************)
PathOf(method, outlet_id) ==
    CASE method = "get_pdu_units_info" -> <<"config/info/units">>
      [] method = "get_pdu_system_info" -> <<"config/info/system">>
      [] method = "get_outlets" -> <<"control/outlets">>
      [] method = "set_outlet_state" -> <<"control/outlets/">> \o outlet_id

VerbOf(method) == IF method = "set_outlet_state" THEN "PATCH" ELSE "GET"

\* one entry of the history: the request sent and the status answered (0: the
\* transport failed), or a sleep; n is the position of the for loop of
\* set_outlets_state when the entry was made (0 outside the flow)
Exchange(c, res) ==
    [ev |-> "request", n |-> idx, verb |-> VerbOf(c.method),
     url |-> Url(api, PathOf(c.method, c.outlet_id)),
     json |-> IF c.method = "set_outlet_state" THEN c.outlet_state ELSE NoValue,
     auth |-> session.auth, status |-> res.status, secs |-> 0]

Slept(secs) ==
    [ev |-> "sleep", n |-> idx, verb |-> NoValue, url |-> <<>>, json |-> NoValue,
     auth |-> <<>>, status |-> 0, secs |-> secs]

\* `exception = None` in inner()
NoException == Exc("None", 0, 0)

NoCall == [method |-> "none", outlet_id |-> <<>>, outlet_state |-> NoValue,
           attempt |-> 0, exception |-> NoException, pc |-> "none", start |-> 0]

\* the raise block after the while loop of inner()
Exhausted(c) ==
    IF raise_on_timeout
    THEN IF c.exception # NoException
         THEN Raise(c.exception)
         ELSE Raise(Exc("RESTAPIServerTechError", 0, 0))
    ELSE Return(None)

LoopTest_inclusive(c) == c.attempt <= retries

\* `while attempt < retries`
LoopTest(c) == c.attempt < retries

NewCall_early(method, outlet_id, outlet_state, start) ==
    [method |-> method, outlet_id |-> outlet_id, outlet_state |-> outlet_state,
     attempt |-> -1, exception |-> NoException, pc |-> "try", start |-> start]

\* entry of inner(): exception = None, attempt = 0; start is the length of
\* the history when the call began
NewCall(method, outlet_id, outlet_state, start) ==
    [method |-> method, outlet_id |-> outlet_id, outlet_state |-> outlet_state,
     attempt |-> 0, exception |-> NoException, pc |-> "try", start |-> start]

(***************************************************************************)
(* Initial state: the driver is loaded, no command is running.             *)
(***************************************************************************)
NoConf == [address |-> NoValue, api_user |-> NoValue, api_password |-> NoValue,
           api_port |-> NoValue, api_scheme |-> NoValue]

\* PDUResourceModel.from_resource_config: nothing discovered yet
NewResourceModel ==
    [vendor |-> NoValue, model |-> NoValue, sockets |-> <<>>, built |-> FALSE]

NoInfo == <<<<"<None>", "<None>">>>>

\* the part of the initial state that the autoload flow and the client
\* registry add
InitRest ==
    /\ conf = NoConf
    /\ resource_model = NewResourceModel
    /\ outlets_info = NoInfo
    /\ pdu_info = NoInfo
    /\ clients = <<>>
    /\ docs = <<>>

NoArgs == [res |-> Response(0, ""), raise_for_status |-> FALSE,
           http_error_map |-> MapArg(TRUE, NoMap)]

Init ==
    /\ op = "none"
    /\ opState = "idle"
    /\ opResult = None
    /\ ports = <<>>
    /\ state = NoValue
    /\ outlets = <<>>
    /\ idx = 0
    /\ api = NoApi
    /\ session = NewSession
    /\ call = NoCall
    /\ response = Response(0, "")
    /\ log = <<>>
    /\ args = NoArgs
    /\ ret = Return(None)
    /\ InitRest

(***************************************************************************)
(* What happens when the API call in progress ends with outcome: a read    *)
(* hands it to the host; set_outlets_state goes on with its for loop, or   *)
(* lets the exception propagate.                                           *)
(***************************************************************************)
NextOutlet_keep_going(i, outcome) == i + 1

NextOutlet(i, outcome) == IF outcome.kind = "return" THEN i + 1 ELSE 0

FinishStateFlow(outcome) ==
    /\ IF NextOutlet(idx, outcome) \in 1..Len(outlets)
       THEN /\ idx' = NextOutlet(idx, outcome)
            /\ call' = NewCall("set_outlet_state", outlets[idx'], state, Len(log'))
            /\ UNCHANGED <<opState, opResult>>
       ELSE /\ opState' = IF outcome.kind = "raise" THEN "raised" ELSE "returned"
            /\ opResult' = IF outcome.kind = "return" THEN None ELSE outcome.value
            /\ call' = NoCall
            /\ UNCHANGED idx
    /\ UNCHANGED autoloadVars

FinishRead(outcome) ==
    /\ opState' = IF outcome.kind = "raise" THEN "raised" ELSE "returned"
    /\ opResult' = outcome.value
    /\ call' = NoCall
    /\ UNCHANGED idx
    /\ UNCHANGED autoloadVars

(***************************************************************************)
(* Python dicts, as sequences of <<key, value>> in insertion order.        *)
(***************************************************************************)
HasKey(d, k) == \E i \in 1..Len(d) : d[i][1] = k

DictGet(d, k, default) ==
    IF HasKey(d, k) THEN d[CHOOSE i \in 1..Len(d) : d[i][1] = k][2] ELSE default

\* d.update({k: v})
DictUpdate(d, k, v) ==
    IF HasKey(d, k)
    THEN [i \in 1..Len(d) |-> IF d[i][1] = k THEN <<k, v>> ELSE d[i]]
    ELSE Append(d, <<k, v>>)

(***************************************************************************)
(* ServerTechHandler: what it makes of the documents the client returns.   *)
(* Iterating a JSON object yields its keys, which are strings.             *)
(***************************************************************************)
RECURSIVE OutletsLoop(_, _, _)
OutletsLoop(info, items, i) ==
    IF i > Len(items) THEN Return(info)
    ELSE IF ~HasKey(items[i].items, "id")
            \/ ~HasKey(items[i].items, "control_state")
         THEN Raise(Exc("KeyError", 0, 0))
         ELSE OutletsLoop(DictUpdate(info, DictGet(items[i].items, "id", ""),
                                     DictGet(items[i].items, "control_state", "")),
                          items, i + 1)

\* get_outlets_info, after get_outlets returned the document
get_outlets_info(doc) ==
    IF doc.kind = "list" THEN OutletsLoop(<<>>, doc.items, 1)
    ELSE IF doc.items = <<>> THEN Return(<<>>)
    ELSE Raise(Exc("TypeError", 0, 0))

RECURSIVE UnitsLoop(_, _, _)
UnitsLoop(info, items, i) ==
    IF i > Len(items) THEN info
    ELSE UnitsLoop(
            DictUpdate(
                DictUpdate(info, "model",
                           DictGet(items[i].items, "model_number", "")),
                "serial", DictGet(items[i].items, "product_serial_number", "")),
            items, i + 1)

\* get_pdu_info, after get_pdu_units_info returned the document
get_pdu_info_units(doc) ==
    IF doc.kind = "list" THEN Return(UnitsLoop(<<>>, doc.items, 1))
    ELSE IF doc.items = <<>> THEN Return(<<>>)
    ELSE Raise(Exc("AttributeError", 0, 0))

\* get_pdu_info, after get_pdu_system_info returned the document
get_pdu_info_system(info, doc) ==
    IF doc.kind = "dict"
    THEN Return(DictUpdate(info, "fw", DictGet(doc.items, "firmware", "")))
    ELSE Raise(Exc("AttributeError", 0, 0))

(***************************************************************************)
(* ServerTechAutoloadFlow._autoload_flow after the fetches: the resource   *)
(* model gets vendor, model and one PowerSocket per outlet id, then        *)
(* build() is called.                                                      *)
(***************************************************************************)
Populate_skip_last(rm, oinfo, pinfo) ==
    [vendor |-> "Server Technology",
     model |-> DictGet(pinfo, "model", ""),
     sockets |-> rm.sockets \o [i \in 1..(Len(oinfo) - 1) |-> oinfo[i][1]],
     built |-> TRUE]

Populate(rm, oinfo, pinfo) ==
    [vendor |-> "Server Technology",
     model |-> DictGet(pinfo, "model", ""),
     sockets |-> rm.sockets \o [i \in 1..Len(oinfo) |-> oinfo[i][1]],
     built |-> TRUE]

AutoLoadDetails == [kind |-> "AutoLoadDetails"]

\* the flow goes on to its next statement only when the fetch returned
FetchedOk(outcome) == outcome.kind = "return"

Propagate_wrapped(outcome) ==
    /\ opState' = "raised"
    /\ opResult' = Exc("Exception", 0, 0)
    /\ call' = NoCall
    /\ UNCHANGED idx
    /\ UNCHANGED autoloadVars

\* no try statement in _autoload_flow or the handler: the exception of a
\* failed fetch leaves the flow as it is, before any later statement
Propagate(outcome) ==
    /\ opState' = "raised"
    /\ opResult' = outcome.value
    /\ call' = NoCall
    /\ UNCHANGED idx
    /\ UNCHANGED autoloadVars

\* idx = 1: get_outlets, 2: get_pdu_units_info, 3: get_pdu_system_info
FinishAutoload(outcome) ==
    LET doc == IF outcome.kind = "return" THEN outcome.value ELSE Dict(<<>>)
        made ==
            IF outcome.kind = "raise" THEN outcome
            ELSE IF outcome.value.kind \notin {"list", "dict"}
            THEN Raise(Exc("TypeError", 0, 0))
            ELSE CASE idx = 1 -> get_outlets_info(doc)
                   [] idx = 2 -> get_pdu_info_units(doc)
                   [] idx = 3 -> get_pdu_info_system(pdu_info, doc)
    IN  IF ~FetchedOk(outcome)
        THEN Propagate(outcome)
        ELSE IF made.kind = "raise"
        THEN Propagate(made)
        ELSE CASE idx = 1 ->
                    /\ outlets_info' = made.value
                    /\ docs' = Append(docs, doc)
                    /\ idx' = 2
                    /\ call' = NewCall("get_pdu_units_info", <<>>, NoValue, Len(log'))
                    /\ UNCHANGED <<opState, opResult, resource_model, pdu_info>>
               [] idx = 2 ->
                    /\ pdu_info' = made.value
                    /\ docs' = Append(docs, doc)
                    /\ idx' = 3
                    /\ call' = NewCall("get_pdu_system_info", <<>>, NoValue, Len(log'))
                    /\ UNCHANGED <<opState, opResult, resource_model, outlets_info>>
               [] idx = 3 ->
                    /\ pdu_info' = made.value
                    /\ docs' = Append(docs, doc)
                    /\ resource_model' = Populate(resource_model, outlets_info, pdu_info')
                    /\ opState' = "returned"
                    /\ opResult' = AutoLoadDetails
                    /\ call' = NoCall
                    /\ UNCHANGED <<idx, outlets_info>>

Finish(outcome) ==
    CASE op = "set_outlets_state" -> FinishStateFlow(outcome)
      [] op = "autoload" -> FinishAutoload(outcome)
      [] OTHER -> FinishRead(outcome)

(***************************************************************************)
(* ServerTechOutletsStateFlow.set_outlets_state up to its first API call.  *)
(***************************************************************************)
ExamplePorts ==
    {<<"h", "/", "P", "S", "4">>, <<"h", "/", "P", "S", "6">>,
     <<"h", "/", "P", "S", "8">>}

\* lists of distinct ports
ExamplePortLists ==
    UNION {{ps \in [1..n -> ExamplePorts] :
                \A i, j \in 1..n : ps[i] = ps[j] => i = j} : n \in 0..MaxPorts}

RequestedStates == {"on", "off", "reboot", "cycle", ""}

set_outlets_state(ps, st, cf) ==
    /\ opState = "idle"
    /\ op' = "set_outlets_state"
    /\ ports' = ps
    /\ state' = st
    /\ conf' = cf
    /\ IF ~IsAvailable(st)
       THEN /\ opState' = "raised"
            /\ opResult' = Exc("NotSupportedServerTechError", 0, 0)
            /\ UNCHANGED <<outlets, idx, api, session, call, clients>>
       ELSE /\ outlets' = _ports_to_outlet_ids(ps)
            /\ api' = ServerTechAPI(cf)
            /\ session' = PostInit(api', session)
            /\ clients' = Append(clients, api')
            /\ IF outlets' = <<>>
               THEN /\ opState' = "returned"
                    /\ opResult' = None
                    /\ UNCHANGED <<idx, call>>
               ELSE /\ opState' = "running"
                    /\ idx' = 1
                    /\ call' = NewCall("set_outlet_state", outlets'[1], st, Len(log))
                    /\ UNCHANGED opResult
    /\ UNCHANGED <<response, log, args, ret>>
    /\ UNCHANGED autoloadVars

(***************************************************************************)
(* A decorated read on a client made by ServerTechHandler.from_config.     *)
(***************************************************************************)
Read(method, cf) ==
    /\ opState = "idle"
    /\ op' = method
    /\ opState' = "running"
    /\ conf' = cf
    /\ api' = ServerTechAPI(cf)
    /\ session' = PostInit(api', session)
    /\ clients' = Append(clients, api')
    /\ call' = NewCall(method, <<>>, NoValue, Len(log))
    /\ UNCHANGED <<opResult, ports, state, outlets, idx, response, log, args, ret>>
    /\ UNCHANGED autoloadVars

(***************************************************************************)
(* get_inventory: ServerTechHandler.from_config, then _autoload_flow up to *)
(* its first API call, get_outlets.                                        *)
(***************************************************************************)
Autoload(cf) ==
    /\ opState = "idle"
    /\ op' = "autoload"
    /\ opState' = "running"
    /\ conf' = cf
    /\ api' = ServerTechAPI(cf)
    /\ session' = PostInit(api', session)
    /\ clients' = Append(clients, api')
    /\ idx' = 1
    /\ call' = NewCall("get_outlets", <<>>, NoValue, Len(log))
    /\ UNCHANGED <<opResult, ports, state, outlets, response, log, args, ret>>
    /\ UNCHANGED autoloadVars

(***************************************************************************)
(* One pass through the try block of inner(): the decorated method sends   *)
(* its request and the PDU answers, or the transport fails.                *)
(***************************************************************************)
Transport == Responses \cup {Response(0, "")}

\* the answers to one method: a GET may also get a document of its endpoint
TransportFor(method) ==
    Transport \cup
        {Response(200, b) :
            b \in CASE method = "get_pdu_units_info" -> UnitsTexts
                    [] method = "get_outlets" -> OutletsTexts
                    [] method = "get_pdu_system_info" -> SystemTexts
                    [] OTHER -> {}}

Attempt ==
    /\ opState = "running"
    /\ call.pc = "try"
    /\ \E net \in TransportFor(call.method) :
        LET n == call.attempt + 1
            decorated ==
                IF net.status = 0
                THEN Raise(Exc("ConnectionError", 0, n))
                ELSE _do_request(net, TRUE,
                                 MapArg(FALSE, ErrorMapOf(call.method)), n)
            result ==
                IF decorated.kind = "return"
                THEN InnerReturn(decorated.value, n)
                ELSE decorated
        IN  /\ response' = net
            /\ log' = Append(log, Exchange(call, net))
            /\ IF result.kind = "raise" /\ Caught(result.value)
               THEN /\ call' = [call EXCEPT !.exception = result.value,
                                            !.pc = "sleep"]
                    /\ UNCHANGED <<opState, opResult, idx>>
                    /\ UNCHANGED autoloadVars
               ELSE Finish(result)
    /\ UNCHANGED <<op, ports, state, outlets, api, session, args, ret, conf,
                   clients>>

(***************************************************************************)
(* The except block of inner(): sleep, count the attempt, test the loop.   *)
(***************************************************************************)
Sleep ==
    /\ opState = "running"
    /\ call.pc = "sleep"
    /\ log' = Append(log, Slept(timeout))
    /\ UNCHANGED response
    /\ LET c == [call EXCEPT !.attempt = @ + 1]
       IN  IF LoopTest(c)
           THEN /\ call' = [c EXCEPT !.pc = "try"]
                /\ UNCHANGED <<opState, opResult, idx>>
                /\ UNCHANGED autoloadVars
           ELSE Finish(Exhausted(c))
    /\ UNCHANGED <<op, ports, state, outlets, api, session, args, ret, conf,
                   clients>>

Next ==
    \/ \E ps \in ExamplePortLists, st \in RequestedStates, cf \in Configs :
            set_outlets_state(ps, st, cf)
    \/ \E method \in ReadMethods, cf \in Configs : Read(method, cf)
    \/ \E cf \in Configs : Autoload(cf)
    \/ Attempt
    \/ Sleep

Spec == Init /\ [][Next]_vars

(***************************************************************************)
(* _ports_to_outlet_ids on its own, for every list of at most MaxPorts     *)
(* ports over Alphabet with at most MaxChars characters in all.            *)
(***************************************************************************)
Alphabet == {"1", "/", "P", "S"}

Strings(n) == UNION {[1..k -> Alphabet] : k \in 0..n}

RECURSIVE PortLists(_, _)
PortLists(chars, n) ==
    IF n = 0 THEN {<<>>}
    ELSE {<<>>} \cup
         UNION {{<<p>> \o rest : rest \in PortLists(chars - Len(p), n - 1)} :
                    p \in Strings(chars)}

InitPorts ==
    /\ op = "_ports_to_outlet_ids"
    /\ opState = "idle"
    /\ opResult = None
    /\ ports \in PortLists(MaxChars, MaxPorts)
    /\ state = NoValue
    /\ outlets = <<>>
    /\ idx = 0
    /\ api = NoApi
    /\ session = NewSession
    /\ call = NoCall
    /\ response = Response(0, "")
    /\ log = <<>>
    /\ args = NoArgs
    /\ ret = Return(None)
    /\ InitRest

ConvertPorts ==
    /\ op = "_ports_to_outlet_ids"
    /\ opState = "idle"
    /\ outlets' = _ports_to_outlet_ids(ports)
    /\ opState' = "returned"
    /\ UNCHANGED <<op, opResult, ports, state, idx, api, session, call,
                   response, log, args, ret, conf, clients>>
    /\ UNCHANGED autoloadVars

SpecPorts == InitPorts /\ [][ConvertPorts]_vars

(***************************************************************************)
(* _do_request on its own, for every response status, both values of       *)
(* raise_for_status and a choice of error maps.                            *)
(***************************************************************************)
ErrorMaps ==
    {NoMap, BASE_ERRORS, Merge(BASE_ERRORS, set_outlet_state_error_map),
     (500 :> "NotSupportedServerTechError") @@ (200 :> "RESTAPIServerTechError")}

MapArgs == {MapArg(TRUE, NoMap)} \cup {MapArg(FALSE, m) : m \in ErrorMaps}

RequestStatuses == Statuses \cup {301, 399, 499, 599, 600}

InitRequest ==
    /\ op = "_do_request"
    /\ opState = "idle"
    /\ opResult = None
    /\ ports = <<>>
    /\ state = NoValue
    /\ outlets = <<>>
    /\ idx = 0
    /\ api = NoApi
    /\ session = NewSession
    /\ call = NoCall
    /\ response = Response(0, "")
    /\ log = <<>>
    /\ args \in [res : {Response(s, b) : s \in RequestStatuses, b \in {"", "[]"}},
                 raise_for_status : BOOLEAN,
                 http_error_map : MapArgs]
    /\ ret = Return(None)
    /\ InitRest

DoRequest ==
    /\ op = "_do_request"
    /\ opState = "idle"
    /\ ret' = _do_request(args.res, args.raise_for_status, args.http_error_map, 1)
    /\ opState' = IF ret'.kind = "raise" THEN "raised" ELSE "returned"
    /\ UNCHANGED <<op, opResult, ports, state, outlets, idx, api, session,
                   call, response, log, args, conf, clients>>
    /\ UNCHANGED autoloadVars

SpecRequest == InitRequest /\ [][DoRequest]_vars

(***************************************************************************)
(* Reading the history.                                                    *)
(***************************************************************************)
IsRequest(j) == log[j].ev = "request"
IsSleep(j) == log[j].ev = "sleep"

RequestsOf(n) == {j \in 1..Len(log) : IsRequest(j) /\ log[j].n = n}
SleepsOf(n) == {j \in 1..Len(log) : IsSleep(j) /\ log[j].n = n}
EntriesOf(n) == {j \in 1..Len(log) : log[j].n = n}

RECURSIVE TotalSlept(_)
TotalSlept(j) == IF j = 0 THEN 0 ELSE log[j].secs + TotalSlept(j - 1)

Finished == opState \in {"returned", "raised"}

RaisedWith(cls, status, attempt) ==
    opState = "raised" /\ opResult = Exc(cls, status, attempt)

\* the request at j was the attempt-th request of its call
AttemptOf(j) == Cardinality({k \in RequestsOf(log[j].n) : k <= j})

(***************************************************************************)
(* C1: set_outlets_state with a state other than on, off, reboot fails     *)
(* with NotSupportedServerTechError, and nothing has gone to the network:  *)
(* no client was constructed, the session is untouched, no request was     *)
(* sent and no call frame exists.                                          *)
(***************************************************************************)
C1_NotSupportedBeforeNetwork ==
    (op = "set_outlets_state" /\ state \notin {"on", "off", "reboot"}) =>
        /\ RaisedWith("NotSupportedServerTechError", 0, 0)
        /\ api = NoApi
        /\ session = NewSession
        /\ call = NoCall
        /\ log = <<>>

C1_Witness ==
    /\ op = "set_outlets_state"
    /\ state = "cycle"
    /\ Len(ports) = 2
    /\ opState = "raised"

(***************************************************************************)
(* C2: a decorated read that got HTTP 404 on every attempt has made        *)
(* exactly 6 requests, slept 5 seconds after each of them (so between any  *)
(* two consecutive attempts), and raised the unavailable error of the 6th  *)
(* attempt; it slept at least (6 - 1) * 5 seconds.                         *)
(***************************************************************************)
All404 == \A j \in 1..Len(log) : IsRequest(j) => log[j].status = 404

C2_RetriesExhausted ==
    (op \in ReadMethods /\ Finished /\ All404) =>
        /\ Cardinality(RequestsOf(0)) = 6
        /\ Len(log) = 12
        /\ \A j \in 1..Len(log) :
              IF j % 2 = 1 THEN IsRequest(j) /\ log[j].verb = "GET"
              ELSE IsSleep(j) /\ log[j].secs = 5
        /\ RaisedWith("RESTAPIUnavailableServerTechError", 404, 6)
        /\ TotalSlept(Len(log)) >= (retries - 1) * timeout

C2_Witness ==
    /\ op = "get_outlets"
    /\ opState = "raised"
    /\ All404
    /\ Cardinality(RequestsOf(0)) = 6

(***************************************************************************)
(* C3: in a decorated read, a 200 answer with a JSON body that comes after *)
(* nothing but 404 answers ends the call at once: it is the last entry of  *)
(* the history, it is request number k <= 6 with k - 1 sleeps before it,   *)
(* and the read has returned that body parsed.                             *)
(***************************************************************************)
C3_SuccessStopsRetrying ==
    op \in ReadMethods =>
        \A j \in 1..Len(log) :
            ( /\ IsRequest(j)
              /\ log[j].status \in SuccessStatuses
              /\ \A k \in 1..(j - 1) : IsRequest(k) => log[k].status = 404
              /\ (j = Len(log) => response.body \in JsonTexts) )
            => /\ j = Len(log)
               /\ opState = "returned"
               /\ opResult = JsonValue(response.body)
               /\ opResult # response
               /\ Cardinality(RequestsOf(0)) = AttemptOf(j)
               /\ AttemptOf(j) <= 6
               /\ j = 2 * AttemptOf(j) - 1

C3_Witness ==
    /\ op = "get_pdu_system_info"
    /\ opState = "returned"
    /\ Cardinality(RequestsOf(0)) = 3
    /\ log[1].status = 404
    /\ log[3].status = 404
    /\ opResult = [kind |-> "dict", items |-> <<<<"firmware", "1.2">>>>]

(***************************************************************************)
(* C4: a PATCH of set_outlet_state answered with 409 or 400 ends the       *)
(* operation at once with RESTAPIServerTechError: nothing follows it in    *)
(* the history, and when it was the first request of its call, that call   *)
(* has made one request and never slept.                                   *)
(***************************************************************************)
C4_ConflictNotRetried ==
    op = "set_outlets_state" =>
        \A j \in 1..Len(log) :
            (IsRequest(j) /\ log[j].verb = "PATCH" /\ log[j].status \in {400, 409})
            => /\ j = Len(log)
               /\ RaisedWith("RESTAPIServerTechError", log[j].status, AttemptOf(j))
               /\ call = NoCall
               /\ (AttemptOf(j) = 1 =>
                      /\ Cardinality(RequestsOf(log[j].n)) = 1
                      /\ SleepsOf(log[j].n) = {})

C4_Witness ==
    /\ op = "set_outlets_state"
    /\ opState = "raised"
    /\ Len(log) = 1
    /\ log[1].verb = "PATCH"
    /\ log[1].status = 409
    /\ Len(outlets) = 2

(***************************************************************************)
(* C5 as claimed: every set_outlet_state call sends at most one PATCH, and *)
(* a PATCH answered with 400, 404, 405, 409 or 503 ends the operation at   *)
(* once, without a sleep.                                                  *)
(***************************************************************************)
C5_Claimed_WritesNeverRetried ==
    op = "set_outlets_state" =>
        /\ \A n \in 1..Len(outlets) : Cardinality(RequestsOf(n)) <= 1
        /\ \A j \in 1..Len(log) :
              (IsRequest(j) /\ log[j].status \in {400, 404, 405, 409, 503})
              => j = Len(log) /\ opState = "raised"

(***************************************************************************)
(* C5 amended: a set_outlet_state call is retried on HTTP 404 and on       *)
(* nothing else.  It sends at most 6 PATCH requests, every PATCH but the   *)
(* last of a call was answered 404 and is followed by a 5 second sleep,    *)
(* and a PATCH answered with 400, 405, 409 or 503 ends the operation at    *)
(* once with RESTAPIServerTechError, with no sleep after it.               *)
(***************************************************************************)
C5_WritesRetriedOn404Only ==
    op = "set_outlets_state" =>
        /\ \A n \in 1..Len(outlets) : Cardinality(RequestsOf(n)) <= 6
        /\ \A j \in 1..Len(log) :
              IsRequest(j) =>
                /\ log[j].verb = "PATCH"
                /\ (log[j].status \in {400, 405, 409, 503} =>
                        /\ j = Len(log)
                        /\ RaisedWith("RESTAPIServerTechError", log[j].status,
                                      AttemptOf(j)))
                /\ (log[j].status = 404 =>
                        IF j = Len(log)
                        THEN opState = "running" /\ call.pc = "sleep"
                        ELSE IsSleep(j + 1) /\ log[j + 1].secs = 5
                                /\ log[j + 1].n = log[j].n)
                /\ (\E k \in RequestsOf(log[j].n) : k > j) => log[j].status = 404

C5_Witness ==
    /\ op = "set_outlets_state"
    /\ opState = "raised"
    /\ Cardinality(RequestsOf(1)) = 3
    /\ log[1].status = 404
    /\ log[5].status = 503

(***************************************************************************)
(* C6 as claimed: a read answered with HTTP 503 is not failed by that      *)
(* answer; the wrapper goes to sleep and re-attempts.                      *)
(***************************************************************************)
C6_Claimed_RetryOn503 ==
    op \in ReadMethods =>
        \A j \in 1..Len(log) :
            (IsRequest(j) /\ log[j].status = 503 /\ AttemptOf(j) < 6)
            => IF j = Len(log)
               THEN opState = "running" /\ call.pc = "sleep"
               ELSE IsSleep(j + 1)

(***************************************************************************)
(* C6 amended: the client retries on HTTP 404, not on 503.  A read         *)
(* answered with 503 fails on that answer with RESTAPIServerTechError, no  *)
(* sleep and no request after it; a read answered with 404 sleeps 5        *)
(* seconds and, while fewer than 6 attempts were made, asks again.         *)
(***************************************************************************)
C6_RetryOn404Not503 ==
    op \in ReadMethods =>
        \A j \in 1..Len(log) :
            IsRequest(j) =>
                /\ (log[j].status = 503 =>
                        /\ j = Len(log)
                        /\ call = NoCall
                        /\ RaisedWith("RESTAPIServerTechError", 503, AttemptOf(j)))
                /\ (log[j].status = 404 =>
                        /\ j = Len(log) => opState = "running" /\ call.pc = "sleep"
                        /\ j < Len(log) => IsSleep(j + 1) /\ log[j + 1].secs = 5
                        /\ (j + 1 < Len(log) /\ AttemptOf(j) < 6) => IsRequest(j + 2)
                        /\ (j + 1 = Len(log) /\ AttemptOf(j) < 6) =>
                                opState = "running" /\ call.pc = "try")

C6_Witness ==
    /\ op = "get_pdu_units_info"
    /\ Len(log) = 3
    /\ log[1].status = 404
    /\ log[3].status = 503
    /\ opState = "raised"

(***************************************************************************)
(* C7: set_outlets_state with a valid state calls set_outlet_state for     *)
(* the outlets one at a time in the order of the ports: the history is     *)
(* the calls 1, 2, ... in order, each a run of PATCHes of that outlet with *)
(* the requested state, and a call starts only after the one before it     *)
(* ended with a success.  When the operation has raised, it raised in call *)
(* idx: every outlet before idx was called, no outlet after idx was, and   *)
(* nothing but PATCHes of the requested state was ever sent.               *)
(***************************************************************************)
LastRequestOf(n) == CHOOSE j \in RequestsOf(n) : \A k \in RequestsOf(n) : k <= j

C7_SequentialNoRollback ==
    (op = "set_outlets_state" /\ state \in {"on", "off", "reboot"}) =>
        /\ Len(outlets) = Len(ports)
        /\ \A j \in 1..Len(log) :
              /\ log[j].n \in 1..Len(outlets)
              /\ j > 1 => log[j].n \in {log[j - 1].n, log[j - 1].n + 1}
              /\ j = 1 => log[j].n = 1
              /\ IsRequest(j) =>
                    /\ log[j].verb = "PATCH"
                    /\ log[j].json = state
                    /\ log[j].url = Url(api, <<"control/outlets/">>
                                                \o outlets[log[j].n])
              /\ (j > 1 /\ log[j].n = log[j - 1].n + 1) =>
                    /\ IsRequest(j - 1)
                    /\ log[j - 1].status \in SuccessStatuses
        /\ opState = "raised" =>
              /\ idx \in 1..Len(outlets)
              /\ \A n \in 1..idx : RequestsOf(n) # {}
              /\ \A n \in 1..(idx - 1) :
                    log[LastRequestOf(n)].status \in SuccessStatuses
              /\ \A n \in (idx + 1)..Len(outlets) : EntriesOf(n) = {}
              /\ call = NoCall
        /\ opState = "returned" =>
              \A n \in 1..Len(outlets) :
                    /\ RequestsOf(n) # {}
                    /\ log[LastRequestOf(n)].status \in SuccessStatuses

C7_Witness ==
    /\ op = "set_outlets_state"
    /\ Len(outlets) = 3
    /\ opState = "raised"
    /\ idx = 2
    /\ RequestsOf(1) # {}
    /\ RequestsOf(2) # {}
    /\ EntriesOf(3) = {}

(***************************************************************************)
(* C8 as claimed: _ports_to_outlet_ids keeps length and order, and each    *)
(* outlet id is the port's token after the last "/" with a leading "PS"    *)
(* removed and every other character kept.                                 *)
(***************************************************************************)
\* the longest suffix of port without a "/"
TokenAfterLastSlash(port) ==
    LET k == CHOOSE k \in 0..Len(port) :
                /\ \A i \in (k + 1)..Len(port) : port[i] # "/"
                /\ k > 0 => port[k] = "/"
    IN  SubSeq(port, k + 1, Len(port))

StripPrefixPS(token) ==
    IF Len(token) >= 2 /\ token[1] = "P" /\ token[2] = "S"
    THEN SubSeq(token, 3, Len(token))
    ELSE token

C8_Claimed_PrefixOnly ==
    (op = "_ports_to_outlet_ids" /\ opState = "returned") =>
        /\ Len(outlets) = Len(ports)
        /\ \A i \in 1..Len(ports) :
              outlets[i] = StripPrefixPS(TokenAfterLastSlash(ports[i]))

(***************************************************************************)
(* C9: _do_request raises exactly when the status is 4xx or 5xx and        *)
(* raise_for_status is set; it then raises the class the error map gives   *)
(* for the status, BaseServerTechError when the map (or no map) has none.  *)
(* In every other case it returns the response it was given.               *)
(***************************************************************************)
C9_DoRequestMapsStatus ==
    (op = "_do_request" /\ opState # "idle") =>
        LET status == args.res.status
            map == args.http_error_map
            mapped == ~map.isNone /\ status \in DOMAIN map.map
        IN  IF args.raise_for_status /\ (status \div 100) \in {4, 5}
            THEN /\ opState = "raised"
                 /\ ret.kind = "raise"
                 /\ ret.value.cls = IF mapped THEN map.map[status]
                                    ELSE "BaseServerTechError"
            ELSE /\ opState = "returned"
                 /\ ret = Return(args.res)

C9_Witness ==
    /\ op = "_do_request"
    /\ opState = "raised"
    /\ args.res.status = 503
    /\ args.http_error_map = MapArg(FALSE, NoMap)
    /\ ret.value.cls = "BaseServerTechError"

(***************************************************************************)
(* C10 as claimed: when the wrapper gets a success response, the call      *)
(* raises nothing; its result is the parsed body when the body is a JSON   *)
(* document, and the response itself, unparsed, when the body is empty.    *)
(***************************************************************************)
C10_Claimed_EmptyBodyReturnedRaw ==
    \A j \in 1..Len(log) :
        (j = Len(log) /\ IsRequest(j) /\ log[j].status \in SuccessStatuses
            /\ response.body \in JsonTexts \cup {""})
        => /\ opState # "raised"
           /\ op \in ReadMethods =>
                 /\ opState = "returned"
                 /\ opResult = IF response.body = "" THEN response
                               ELSE JsonValue(response.body)


(***************************************************************************)
(* Autoload.                                                               *)
(***************************************************************************)
AutoloadDone == op = "autoload" /\ opState = "returned"

\* the ids the outlets document lists
OutletIdsOf(doc) ==
    IF doc.kind = "list"
    THEN {doc.items[i].items[k][2] :
            <<i, k>> \in {<<i, k>> \in (1..Len(doc.items)) \X (1..2) :
                            /\ k <= Len(doc.items[i].items)
                            /\ doc.items[i].items[k][1] = "id"}}
    ELSE {}

\* the model numbers the units document reports, "" for a unit without one
ModelNumbersOf(doc) ==
    IF doc.kind = "list"
    THEN {IF \E k \in 1..Len(doc.items[i].items) :
                doc.items[i].items[k][1] = "model_number"
          THEN doc.items[i].items[
                   CHOOSE k \in 1..Len(doc.items[i].items) :
                       doc.items[i].items[k][1] = "model_number"][2]
          ELSE "" : i \in 1..Len(doc.items)}
    ELSE {}

\* C11: after a successful autoload the resource model is built, its vendor
\* is "Server Technology", its model is a model_number of the units document
\* ("" when there is no unit or no model number), and it has exactly one
\* PowerSocket for each outlet id of the outlets document and no other.
C11_AutoloadPopulatesModel ==
    AutoloadDone =>
        /\ Len(docs) = 3
        /\ resource_model.built
        /\ resource_model.vendor = "Server Technology"
        /\ IF ModelNumbersOf(docs[2]) = {}
           THEN resource_model.model = ""
           ELSE resource_model.model \in ModelNumbersOf(docs[2])
        /\ \A id \in OutletIdsOf(docs[1]) :
                Cardinality({i \in 1..Len(resource_model.sockets) :
                                resource_model.sockets[i] = id}) = 1
        /\ \A i \in 1..Len(resource_model.sockets) :
                resource_model.sockets[i] \in OutletIdsOf(docs[1])

\* an autoload that returned for two outlets and a unit with a model number
C11_Witness ==
    /\ AutoloadDone
    /\ Len(docs[1].items) = 2
    /\ resource_model.sockets = <<"AA1", "AA2">>
    /\ resource_model.model = "PRO2"

(***************************************************************************)
(* Several clients in one process.  BaseAPIClient.session has the default  *)
(* requests.Session(), an expression the class body evaluates once: every  *)
(* client constructed without a session gets that one object, and          *)
(* __attrs_post_init__ writes to it.                                        *)
(***************************************************************************)
MaxClients == 3
MaxSends == 2

\* ServerTechAPI(...) for a configuration, as from_config and
\* set_outlets_state construct it
NewClient(cf) ==
    /\ Len(clients) < MaxClients
    /\ api' = ServerTechAPI(cf)
    /\ session' = PostInit(api', session)
    /\ clients' = Append(clients, api')
    /\ UNCHANGED <<op, opState, opResult, ports, state, outlets, idx, call,
                   response, log, args, ret, conf>>
    /\ UNCHANGED autoloadVars

\* client i sends the GET of one read method through its session
Send(i, method) ==
    /\ Len(log) < MaxSends
    /\ i \in 1..Len(clients)
    /\ \E net \in {Response(200, "[]"), Response(404, "")} :
        /\ response' = net
        /\ log' = Append(log,
                    [ev |-> "request", n |-> i, verb |-> VerbOf(method),
                     url |-> Url(clients[i], PathOf(method, <<>>)),
                     json |-> NoValue, auth |-> session.auth,
                     status |-> net.status, secs |-> 0])
    /\ UNCHANGED <<op, opState, opResult, ports, state, outlets, idx, api,
                   session, call, args, ret, conf, clients>>
    /\ UNCHANGED autoloadVars

NextClients ==
    \/ \E cf \in Configs : NewClient(cf)
    \/ \E i \in 1..MaxClients, method \in ReadMethods : Send(i, method)

SpecClients == Init /\ [][NextClients]_vars

\* the credentials a client was constructed with: none for an empty username
OwnAuth(client) ==
    IF client.username # "" THEN <<client.username, client.password>> ELSE <<>>

\* C12 as claimed: clients share no mutable state, so every request carries
\* the credentials of the client that sends it, and none when that client
\* has an empty username, whatever other clients were constructed.
C12_Claimed_OwnCredentials ==
    \A k \in 1..Len(log) :
        IsRequest(k) => log[k].auth = OwnAuth(clients[log[k].n])

(***************************************************************************)
(* Termination of the retry wrapper.  inner() has no blocking step but the *)
(* request and time.sleep, both of which return: a call that can take its  *)
(* next step takes it.                                                     *)
(***************************************************************************)
LiveSpec == Spec /\ WF_vars(Attempt) /\ WF_vars(Sleep)

\* the positions of the calls of one operation: 0 for a read, 1..3 for the
\* fetches of autoload, 1..Len(outlets) for set_outlets_state
CallPositions == 0..(IF MaxPorts > 3 THEN MaxPorts ELSE 3)

RECURSIVE SleptIn(_, _)
SleptIn(n, j) ==
    IF j = 0 THEN 0
    ELSE (IF log[j].n = n THEN log[j].secs ELSE 0) + SleptIn(n, j - 1)

\* a call of the wrapper is under way; between two calls of one operation
\* no state is observable, and the operation ends with its last call
InCall == opState = "running" /\ call # NoCall

\* C13: every call through the retry wrapper sends at most `retries`
\* requests, sleeps at most `retries` times, `timeout` seconds each, hence
\* at most retries * timeout seconds in all, and the operation that makes
\* the calls comes to an end whatever the server answers.
C13_CallsTerminate ==
    /\ [](\A n \in CallPositions :
            /\ Cardinality(RequestsOf(n)) <= retries
            /\ Cardinality(SleepsOf(n)) <= retries
            /\ \A j \in SleepsOf(n) : log[j].secs = timeout
            /\ SleptIn(n, Len(log)) <= retries * timeout)
    /\ InCall ~> Finished

\* a call that used all its requests and slept retries * timeout seconds
C13_Witness ==
    \E n \in CallPositions :
        /\ Finished
        /\ Cardinality(RequestsOf(n)) = retries
        /\ Cardinality(SleepsOf(n)) = retries
        /\ SleptIn(n, Len(log)) = retries * timeout

(***************************************************************************)
(* The URLs of the requests.                                               *)
(***************************************************************************)
\* the defaults of BaseAPIClient.scheme and BaseAPIClient.port, which apply
\* when the constructor is called without the argument
DefaultScheme == "https"
DefaultPort == "443"

\* C14 as claimed: every request goes to scheme://address:port/jaws/path with
\* the scheme and port of the configuration, or "https" and 443 where the
\* configuration leaves them empty; the scheme and the port are never None.
C14_Claimed_UrlFromConfigOrDefaults ==
    \A j \in 1..Len(log) :
        IsRequest(j) =>
            /\ SubSeq(log[j].url, 1, 7) =
                 << IF conf.api_scheme = "" THEN DefaultScheme ELSE conf.api_scheme,
                    "://", conf.address, ":",
                    IF conf.api_port = "" THEN DefaultPort ELSE conf.api_port,
                    "/jaws", "/" >>
            /\ log[j].url[1] # "None"
            /\ log[j].url[5] # "None"

(***************************************************************************)
(* Autoload when a fetch fails.                                            *)
(***************************************************************************)
\* the exception a GET raises for the answer at j of the history: a status
\* other than 200, 204 and 404 is not retried
RaisedBy(j) ==
    Exc(CASE log[j].status = 0 -> "ConnectionError"
          [] log[j].status = 404 -> "RESTAPIUnavailableServerTechError"
          [] log[j].status \in {405, 503} -> "RESTAPIServerTechError"
          [] OTHER -> "BaseServerTechError",
        log[j].status, AttemptOf(j))

FailedAt(j) ==
    /\ IsRequest(j)
    /\ \/ log[j].status \notin SuccessStatuses \cup {404}
       \/ log[j].status = 404 /\ AttemptOf(j) = retries /\ j < Len(log)

\* C15: when a fetch of autoload fails, its error is what autoload raises,
\* and the resource model is as it was handed in: no vendor, no model, no
\* socket, build() not called.  The model is touched only by an autoload
\* that returned, after all three fetches.
C15_FailedFetchLeavesModel ==
    op = "autoload" =>
        /\ \A j \in 1..Len(log) :
              FailedAt(j) =>
                  /\ opState = "raised"
                  /\ opResult = RaisedBy(j)
                  /\ resource_model = NewResourceModel
        /\ opState = "raised" =>
              /\ opResult.kind = "exception"
              /\ resource_model = NewResourceModel
        /\ resource_model # NewResourceModel =>
              /\ opState = "returned"
              /\ Len(docs) = 3

\* the second fetch of an autoload was refused after the first succeeded
C15_Witness ==
    /\ op = "autoload"
    /\ opState = "raised"
    /\ Len(docs) = 1
    /\ outlets_info # <<>>
    /\ \E j \in 1..Len(log) : FailedAt(j) /\ log[j].n = 2 /\ log[j].status = 503
    /\ resource_model = NewResourceModel

====
